---- MODULE Spec2Model ----
(***************************************************************************)
(* Model of custom_components/omg/sensor.py: the OMGRouterSensor that      *)
(* classifies MQTT payloads, creates LoRa devices on first sight, records  *)
(* the last raw payload per device and replays that record at startup.     *)
(*                                                                         *)
(* A payload is the text of one MQTT message.  It is represented by the    *)
(* structure json.loads and MATCHER.match see in it: whether it is JSON,   *)
(* what JSON value it is, whether the object has a 'message' key, what     *)
(* that key holds, and, for a sensor line, the text of each field.         *)
(***************************************************************************)
EXTENDS Integers, Sequences, FiniteSets, TLC

\* ------------------------------------------------------------------ bounds

\* live MQTT messages delivered over the whole behaviour
MaxLive == 2
\* restarts of Home Assistant (each one constructs a new router)
MaxRestarts == 1

\* ------------------------------------------------- numbers (float values)

\* A channel value is a rational n/d; d = 0 stands for None (no value).
Q(n, d) == [n |-> n, d |-> d]
None == Q(0, 0)
QInt(i) == Q(i, 1)
QMul(a, b) == Q(a.n * b.n, a.d * b.d)
QDiv(a, b) == Q(a.n * b.d, a.d * b.n)
QSub(a, b) == Q(a.n * b.d - b.n * a.d, a.d * b.d)
QLe(a, b) == a.n * b.d <= b.n * a.d
QEq(a, b) == a.d # 0 /\ b.d # 0 /\ a.n * b.d = b.n * a.d
\* Python's max(a, b): b only when it is strictly greater
QMax(a, b) == IF QLe(b, a) THEN a ELSE b

\* ---------------------------------------------------------------- payloads

\* the text of a float field of the sensor line: a decimal number, or text
\* that float() rejects
Num(v) == [isnum |-> TRUE, v |-> v]
NotNum == [isnum |-> FALSE, v |-> 0]

Payload(json, key, val, complete, id, h, t, adc, bat) ==
    [json |-> json, key |-> key, val |-> val, complete |-> complete,
     id |-> id, h |-> h, t |-> t, adc |-> adc, bat |-> bat]

\* not JSON at all, e.g. a line cut in the middle:  {"message": "ID7 REP
NotJson == Payload("invalid", "", "", FALSE, "", NotNum, NotNum, 0, 0)
\* JSON, but a number:  5
JsonNumber == Payload("number", "", "", FALSE, "", NotNum, NotNum, 0, 0)
\* {"foo": "bar"}
NoMessageKey == Payload("object", "foo", "text", FALSE, "", NotNum, NotNum, 0, 0)
\* {"message": 5}
MessageNotString == Payload("object", "message", "number", FALSE, "", NotNum, NotNum, 0, 0)
\* {"message": "ID<id> REPLY : SOIL INEDX:1 H:<h> T:<t> ADC:<adc> BAT:<bat>"}
LineA(id, h, t, adc, bat) ==
    Payload("object", "message", "lineA", TRUE, id, h, t, adc, bat)
\* the same line cut before " BAT:"
TruncatedLineA(id, h, t, adc) ==
    Payload("object", "message", "lineA", FALSE, id, h, t, adc, 0)
\* {"message": "{\"node_id\":\"<id>\",\"hum\":..,\"temp\":..,\"bat\":..,\"adc\":..}"}
LineB(id, hum, temp, bat, adc) ==
    Payload("object", "message", "lineB", TRUE, id, Num(hum), Num(temp), adc, bat)

\* the payloads the transport delivers in this model
Payloads ==
    { NotJson, JsonNumber, NoMessageKey, MessageNotString,
      LineA("7", Num(55), Num(21), 600, 300),
      LineA("7", Num(60), Num(22), 400, 1024),
      LineA("7", Num(55), NotNum, 600, 300),
      LineA("42", Num(50), Num(20), 640, 0),
      TruncatedLineA("7", Num(55), Num(21), 600),
      LineB("42", 50, 20, 3, 10) }

\* ------------------------------------------------------------- classifiers

V3 == "MakerFabsSoilSensorV3"
V3JSON == "MakerFabsSoilSensorV3JSON"

\* what a call returns: an identifier, None, or an exception
Matched(id) == [tag |-> "id", id |-> id, exc |-> ""]
NoMatch == [tag |-> "none", id |-> "", exc |-> ""]
Raises(exc) == [tag |-> "raise", id |-> "", exc |-> exc]

\* a variant that also accepts a line cut before BAT
MATCHER_Prefix(p) ==
    IF p.val = "lineA" /\ p.id # "" THEN Matched(p.id) ELSE NoMatch

\* MATCHER.match(text): group 1 when the whole pattern is found
MATCHER(p) ==
    IF p.val = "lineA" /\ p.complete /\ p.id # "" THEN Matched(p.id) ELSE NoMatch

\* MakerFabsSoilSensorV3.match
MatchV3(p) ==
    CASE p.json = "none"    -> Raises("TypeError")    \* json.loads(None)
      [] p.json = "invalid" -> NoMatch                \* JSONDecodeError, caught
      [] p.json = "number"  -> Raises("TypeError")    \* 'message' not in 5
      [] p.key # "message"  -> NoMatch
      [] p.val = "number"   -> Raises("TypeError")    \* MATCHER.match(5)
      [] OTHER              -> MATCHER(p)

\* MakerFabsSoilSensorV3JSON.match
MatchV3JSON(p) ==
    CASE p.json = "none"    -> Raises("TypeError")
      [] p.json = "invalid" -> NoMatch
      [] p.json = "number"  -> Raises("TypeError")
      [] p.key # "message"  -> NoMatch
      [] p.val = "number"   -> Raises("TypeError")    \* json.loads(5)
      [] p.val = "lineB"    -> Matched(p.id)
      [] OTHER              -> NoMatch                \* JSONDecodeError, caught

\* type(device).match / klass.match
Match(cls, p) == IF cls = V3 THEN MatchV3(p) ELSE MatchV3JSON(p)

\* LoRaDevice.full_id
full_id(dev) == dev.cls \o "_" \o dev.id

\* ------------------------------------------------------------------ devices

\* the channel attributes of a device, in the order receive handles them
Keys == << "humidity", "temperature", "adc", "battery", "moisture" >>
KeySet == { Keys[i] : i \in 1..Len(Keys) }

\* a sensor attribute: None (exists = FALSE) or an OMGDeviceSensor with its
\* _attr_native_value
NoSensor == [exists |-> FALSE, value |-> None]
NewSensor == [exists |-> TRUE, value |-> None]

\* MakerFabsSoilSensorV3.__init__: the id from match, every sensor None
NewDevice(cls, id) ==
    [cls |-> cls, id |-> id, sensor |-> [k \in KeySet |-> NoSensor]]

\* klass(message_payload, ...): __init__ calls match again and asserts that
\* it found an id
Construct(cls, p) ==
    LET m == Match(cls, p)
    IN  CASE m.tag = "id"    -> [dev |-> NewDevice(cls, m.id), exc |-> ""]
          [] m.tag = "raise" -> [dev |-> NewDevice(cls, ""), exc |-> m.exc]
          [] OTHER           -> [dev |-> NewDevice(cls, ""), exc |-> "AssertionError"]

\* a float() call: the number, or ValueError
Parsed(v) == [ok |-> TRUE, v |-> v]
ValueError == [ok |-> FALSE, v |-> None]
Float(field) == IF field.isnum THEN Parsed(QInt(field.v)) ELSE ValueError

\* parse_as_battery: float(group 6) * 3.3 / 1024
parse_as_battery(p) == QDiv(QMul(QInt(p.bat), Q(33, 10)), QInt(1024))

\* a variant of parse_moisture that applies the whole adjustment factor
parse_moisture_FullFactor(p) ==
    LET battery_level == QDiv(QMul(QInt(p.bat), Q(33, 10)), QInt(1024))
        sensor_value == QSub(QInt(p.adc), QMul(QInt(45), battery_level))
        floored == QMax(sensor_value, QInt(500))
    IN  QSub(QInt(100), QDiv(QSub(floored, QInt(500)), QInt(5)))

\* parse_moisture
parse_moisture(p) ==
    LET battery_level == QDiv(QMul(QInt(p.bat), Q(33, 10)), QInt(1024))
        battery_adjustment_factor == QInt(45)
        sensor_value == QSub(QInt(p.adc),
                             QMul(QSub(battery_adjustment_factor, QInt(2)),
                                  battery_level))
        floored == QMax(sensor_value, QInt(500))
    IN  QSub(QInt(100), QDiv(QSub(floored, QInt(500)), QInt(5)))

\* entity_description.on_receive of each channel of MakerFabsSoilSensorV3
on_receive(key, p) ==
    CASE key = "humidity"    -> Float(p.h)
      [] key = "temperature" -> Float(p.t)
      [] key = "adc"         -> Parsed(QInt(p.adc))
      [] key = "battery"     -> Parsed(parse_as_battery(p))
      [] OTHER               -> Parsed(parse_moisture(p))

\* a variant of receive's guard that decodes on replay as well
Suppressed_Never(restore_only) == FALSE

\* "if not restore_only" in receive
Suppressed(restore_only) == restore_only

\* a variant of one channel of receive that creates and announces the sensor
\* at every call
ReceiveChannel_AlwaysCreate(r, key, p, restore_only) ==
    LET created == [r.sensor EXCEPT ![key] = NewSensor]
        added == Append(r.added, key)
        got == on_receive(key, p)
    IN  IF Suppressed(restore_only)
        THEN [sensor |-> created, added |-> added, exc |-> ""]
        ELSE IF got.ok
             THEN [sensor |-> [created EXCEPT ![key].value = got.v],
                   added |-> added, exc |-> ""]
             ELSE [sensor |-> created, added |-> added, exc |-> "ValueError"]

\* One channel of receive: create the sensor if the attribute is None and
\* hand it to async_add_entities, then, unless suppressed, call on_receive.
\* r = [sensor, added, exc]: the device's sensors, the keys handed to
\* async_add_entities so far, the exception raised ("" for none).
ReceiveChannel(r, key, p, restore_only) ==
    LET created == IF r.sensor[key].exists THEN r.sensor
                   ELSE [r.sensor EXCEPT ![key] = NewSensor]
        added == IF r.sensor[key].exists THEN r.added ELSE Append(r.added, key)
        got == on_receive(key, p)
    IN  IF Suppressed(restore_only)
        THEN [sensor |-> created, added |-> added, exc |-> ""]
        ELSE IF got.ok
             THEN [sensor |-> [created EXCEPT ![key].value = got.v],
                   added |-> added, exc |-> ""]
             ELSE [sensor |-> created, added |-> added, exc |-> "ValueError"]

RECURSIVE ReceiveFrom(_, _, _, _)
ReceiveFrom(r, i, p, restore_only) ==
    IF i > Len(Keys) \/ r.exc # "" THEN r
    ELSE ReceiveFrom(ReceiveChannel(r, Keys[i], p, restore_only), i + 1, p, restore_only)

\* MakerFabsSoilSensorV3.receive.  device_info reads
\* config_entry.data["via_device"] before any channel is touched.
Receive(dev, p, restore_only, via_device) ==
    IF ~via_device
    THEN [sensor |-> dev.sensor, added |-> << >>, exc |-> "KeyError"]
    ELSE ReceiveFrom([sensor |-> dev.sensor, added |-> << >>, exc |-> ""],
                     1, p, restore_only)

\* ------------------------------------------------------------------- router

VARIABLES
    has_via_device,   \* config_entry.data holds the key "via_device"
    pc,               \* where async_added_to_hass of the router stands
    subscribed,       \* mqtt.async_subscribe has registered message_received
    restore_pos,      \* position of the replay loop in recent_messages
    native_value,     \* the router's _attr_native_value
    known_devices,    \* list of devices, in discovery order
    recent_messages,  \* dict full_id -> payload, in insertion order
    pending,          \* sensors handed to async_add_entities, not yet added
    added_entities,   \* every << full_id, key >> handed to async_add_entities
    state_writes,     \* async_write_ha_state calls of this router
    delivered,        \* live messages delivered over the whole behaviour
    restarts,         \* restarts so far
    store,            \* the router's extra data in the restore-state store
    chan_store,       \* the channel sensors' data in the restore-state store
    routed,           \* last payload handed to each device's receive
    last              \* the last route_message call and how it ended

vars == << has_via_device, pc, subscribed, restore_pos, native_value,
           known_devices, recent_messages, pending, added_entities,
           state_writes, delivered, restarts, store, chan_store, routed, last >>

\* Python's None where a payload is expected
NoPayload == Payload("none", "", "", FALSE, "", NotNum, NotNum, 0, 0)

\* the fixed list of device classes of OMGRouterSensor.__init__
all_devices_classes == << V3 >>

\* dict operations on a sequence of [key, msg] entries
DictKeys(d) == { d[i].key : i \in 1..Len(d) }
DictHas(d, k) == \E i \in 1..Len(d) : d[i].key = k
DictGet(d, k) == d[CHOOSE i \in 1..Len(d) : d[i].key = k].msg
\* a variant of d[k] = v that keeps the first value stored under k
DictSet_KeepFirst(d, k, v) ==
    IF DictHas(d, k) THEN d ELSE Append(d, [key |-> k, msg |-> v])
\* a variant of d[k] = v that stores nothing
DictSet_Drop(d, k, v) == d
\* d[k] = v: overwrite in place, or insert at the end
DictSet(d, k, v) ==
    IF DictHas(d, k)
    THEN [i \in 1..Len(d) |-> IF d[i].key = k THEN [key |-> k, msg |-> v] ELSE d[i]]
    ELSE Append(d, [key |-> k, msg |-> v])

\* the first loop of route_message: the index of the first known device whose
\* class re-matches the payload with the device's own id; 0 for none; -1 when
\* a match call raises before one is found
RECURSIVE FindKnown(_, _, _)
FindKnown(devs, p, i) ==
    IF i > Len(devs) THEN 0
    ELSE LET m == Match(devs[i].cls, p)
         IN  IF m.tag = "raise" THEN -1
             ELSE IF m.tag = "id" /\ m.id = devs[i].id THEN i
             ELSE FindKnown(devs, p, i + 1)

\* a variant of the second loop that takes the first class unasked
FindClass_NoCheck(p, i) == 1

\* the second loop: the index of the first class that matches; 0 for none;
\* -1 when a match call raises first
RECURSIVE FindClass(_, _)
FindClass(p, i) ==
    IF i > Len(all_devices_classes) THEN 0
    ELSE LET m == Match(all_devices_classes[i], p)
         IN  IF m.tag = "raise" THEN -1
             ELSE IF m.tag = "id" THEN i
             ELSE FindClass(p, i + 1)

\* a variant of the first loop that never recognises a known device
Resolve_NoLookup(devs, p) == 0

\* a variant of the first loop that takes the first device whose class
\* matches, whatever id the payload carries
Resolve_IgnoreId(devs, p) ==
    IF \E i \in 1..Len(devs) : Match(devs[i].cls, p).tag = "id"
    THEN CHOOSE i \in 1..Len(devs) :
            /\ Match(devs[i].cls, p).tag = "id"
            /\ \A j \in 1..(i - 1) : Match(devs[j].cls, p).tag # "id"
    ELSE 0

\* the first loop of route_message
Resolve(devs, p) == FindKnown(devs, p, 1)

\* a variant that puts a new device in front of the list
AppendDevice_Front(devs, d) == << d >> \o devs

\* self.known_devices.append(matching_device)
AppendDevice(devs, d) == Append(devs, d)

\* route_message(message_payload, restore_only) on the state (devs, recent):
\* the new known_devices and recent_messages, the index of the matching
\* device, the keys handed to async_add_entities, and how the call ended
\* (outcome: "known", "new", "unmatched" or "raised"; exc: the exception).
route_message(devs, recent, p, restore_only, via_device) ==
    LET k == Resolve(devs, p)
        c == IF k = 0 THEN FindClass(p, 1) ELSE 0
        unchanged(outcome, exc) ==
            [devs |-> devs, recent |-> recent, dev |-> 0, added |-> << >>,
             outcome |-> outcome, exc |-> exc]
    IN  IF k = -1 \/ c = -1 THEN unchanged("raised", "TypeError")
        ELSE IF k = 0 /\ c = 0 THEN unchanged("unmatched", "")
        ELSE LET cls == all_devices_classes[c]
                 made == Construct(cls, p)
                 devs1 == IF k > 0 THEN devs ELSE AppendDevice(devs, made.dev)
                 i == IF k > 0 THEN k ELSE Len(devs1)
                 recent1 == DictSet(recent, full_id(devs1[i]), p)
                 r == Receive(devs1[i], p, restore_only, via_device)
             IN  IF k = 0 /\ made.exc # "" THEN unchanged("raised", made.exc)
                 ELSE [devs |-> [devs1 EXCEPT ![i].sensor = r.sensor],
                       recent |-> recent1, dev |-> i, added |-> r.added,
                       outcome |-> IF r.exc # "" THEN "raised"
                                   ELSE IF k > 0 THEN "known" ELSE "new",
                       exc |-> r.exc]

\* the ids a payload of the model can carry
DevIds == { p.id : p \in Payloads } \ { "" }

NoCall == [op |-> "none", msg |-> NoPayload, outcome |-> "", exc |-> ""]
\* the router's stored extra data: present when the store holds any,
\* has_recent when the stored dict has the key "recent_messages"
NoStore == [present |-> FALSE, has_recent |-> FALSE, native_value |-> NoPayload,
            recent_messages |-> << >>]
NoChanData == [present |-> FALSE, value |-> None]

\* the state of a router after OMGRouterSensor.__init__
Constructed ==
    /\ pc = "constructed"
    /\ subscribed = FALSE
    /\ restore_pos = 1
    /\ native_value = NoPayload
    /\ known_devices = << >>
    /\ recent_messages = << >>
    /\ pending = << >>
    /\ added_entities = << >>
    /\ state_writes = 0
    /\ routed = << >>
    /\ last = NoCall

Init ==
    /\ has_via_device \in BOOLEAN
    /\ Constructed
    /\ delivered = 0
    /\ restarts = 0
    /\ store = NoStore
    /\ chan_store = [x \in DevIds \X KeySet |-> NoChanData]

\* the sensors of device i that a receive call handed to async_add_entities
Scheduled(i, keys) == [j \in 1..Len(keys) |-> [dev |-> i, key |-> keys[j]]]
Announced(fid, keys) == [j \in 1..Len(keys) |-> << fid, keys[j] >>]

\* what one route_message call leaves in the router
Routed(r, op, p) ==
    /\ known_devices' = r.devs
    /\ recent_messages' = r.recent
    /\ pending' = pending \o Scheduled(r.dev, r.added)
    /\ added_entities' =
          IF r.dev = 0 THEN added_entities
          ELSE added_entities \o Announced(full_id(r.devs[r.dev]), r.added)
    /\ routed' = IF r.dev = 0 THEN routed
                 ELSE LET fid == full_id(r.devs[r.dev])
                      IN  [x \in DOMAIN routed \cup { fid } |->
                              IF x = fid THEN p ELSE routed[x]]
    /\ last' = [op |-> op, msg |-> p, outcome |-> r.outcome, exc |-> r.exc]

\* a variant of line 391 that leaves recent_messages as __init__ set it
Restored_Nothing(data) == << >>

\* line 391: self.recent_messages = restored_data.recent_messages
Restored(data) == data.recent_messages

\* OMGRouterExtraStoredData.from_dict: None without "recent_messages"
from_dict(restored) == IF restored.has_recent THEN restored ELSE NoStore

\* async_get_last_sensor_data: None when nothing is stored
async_get_last_sensor_data == IF store.present THEN from_dict(store) ELSE NoStore

\* async_added_to_hass up to the replay loop: async_get_last_sensor_data,
\* then, when there is stored data, _attr_native_value and recent_messages
LoadSnapshot ==
    /\ pc = "constructed"
    /\ LET restored_data == async_get_last_sensor_data
       IN  /\ native_value' = IF restored_data.present
                              THEN restored_data.native_value ELSE native_value
           /\ recent_messages' = IF restored_data.present
                                 THEN Restored(restored_data) ELSE recent_messages
           /\ pc' = IF restored_data.present /\ Len(Restored(restored_data)) > 0
                    THEN "restoring" ELSE "replayed"
    /\ restore_pos' = 1
    /\ UNCHANGED << has_via_device, subscribed, known_devices, pending,
                    added_entities, state_writes, delivered, restarts, store,
                    chan_store, routed, last >>

\* a variant of the replay that goes through message_received
ReplayEffect_Live(p) == [native_value |-> p, state_writes |-> state_writes + 1]

\* what a replayed route_message call does to the router's own value and to
\* the count of state writes: route_message touches neither
ReplayEffect(p) == [native_value |-> native_value, state_writes |-> state_writes]

\* one iteration of "for device_full_id in self.recent_messages"; the loop
\* runs without suspension, so nothing else happens while pc = "restoring".
\* An exception leaves async_added_to_hass; a dict that changed size ends the
\* iteration with RuntimeError.
ReplayStep ==
    /\ pc = "restoring"
    /\ LET p == recent_messages[restore_pos].msg
           r == route_message(known_devices, recent_messages, p, TRUE, has_via_device)
       IN  /\ Routed(r, "replay", p)
           /\ native_value' = ReplayEffect(p).native_value
           /\ state_writes' = ReplayEffect(p).state_writes
           /\ restore_pos' = restore_pos + 1
           /\ pc' = IF r.exc # "" \/ Len(r.recent) # Len(recent_messages)
                    THEN "failed"
                    ELSE IF restore_pos + 1 > Len(r.recent) THEN "replayed"
                    ELSE "restoring"
    /\ UNCHANGED << has_via_device, subscribed, delivered, restarts, store,
                    chan_store >>

\* a variant that subscribes as soon as the router exists
CanSubscribe_Early == pc # "failed"

\* "await mqtt.async_subscribe" is reached once the replay is over
CanSubscribe == pc = "replayed"

Subscribe ==
    /\ CanSubscribe
    /\ ~subscribed
    /\ pc # "restoring"
    /\ subscribed' = TRUE
    /\ UNCHANGED << has_via_device, pc, restore_pos, native_value, known_devices,
                    recent_messages, pending, added_entities, state_writes,
                    delivered, restarts, store, chan_store, routed, last >>

\* a variant of message_received that records only routed payloads
LiveValue_IfRouted(r, p) == IF r.dev = 0 THEN native_value ELSE p

\* message_received, line 400: self._attr_native_value = message.payload
LiveValue(r, p) == p

\* message_received(message): the callback of the subscription.  An exception
\* of route_message leaves the callback; the MQTT client logs it and goes on.
MessageReceived(p) ==
    /\ subscribed
    /\ pc # "restoring"
    /\ delivered < MaxLive
    /\ LET r == route_message(known_devices, recent_messages, p, FALSE, has_via_device)
       IN  /\ native_value' = LiveValue(r, p)
           /\ Routed(r, "live", p)
    /\ state_writes' = state_writes + 1
    /\ delivered' = delivered + 1
    /\ UNCHANGED << has_via_device, pc, subscribed, restore_pos, restarts,
                    store, chan_store >>

\* OMGDeviceSensor.async_added_to_hass of the sensor handed first to
\* async_add_entities: its value becomes the stored one, when there is one
ChannelAddedToHass ==
    /\ pending # << >>
    /\ pc # "restoring"
    /\ LET s == Head(pending)
           data == chan_store[<< known_devices[s.dev].id, s.key >>]
       IN  known_devices' =
              IF data.present
              THEN [known_devices EXCEPT ![s.dev].sensor[s.key].value = data.value]
              ELSE known_devices
    /\ pending' = Tail(pending)
    /\ UNCHANGED << has_via_device, pc, subscribed, restore_pos, native_value,
                    recent_messages, added_entities, state_writes, delivered,
                    restarts, store, chan_store, routed, last >>

\* whether sensor key of device i has been added to hass
IsAdded(i, key) ==
    /\ known_devices[i].sensor[key].exists
    /\ \A j \in 1..Len(pending) : pending[j] # [dev |-> i, key |-> key]

\* extra_restore_state_data: what the restore-state store keeps of the router
extra_restore_state_data ==
    [present |-> TRUE, has_recent |-> TRUE, native_value |-> native_value,
     recent_messages |-> recent_messages]

\* Home Assistant stops and starts again: the store keeps the extra data of
\* every entity that was added, and a new router is constructed.  A router
\* whose async_added_to_hass raised was not added: its stored data stays.
Restart ==
    /\ pc \in { "replayed", "failed" }
    /\ restarts < MaxRestarts
    /\ restarts' = restarts + 1
    /\ store' = IF pc = "replayed" THEN extra_restore_state_data ELSE store
    /\ chan_store' =
          [x \in DevIds \X KeySet |->
              IF \E i \in 1..Len(known_devices) :
                    known_devices[i].id = x[1] /\ IsAdded(i, x[2])
              THEN LET i == CHOOSE i \in 1..Len(known_devices) :
                               known_devices[i].id = x[1] /\ IsAdded(i, x[2])
                   IN  [present |-> TRUE, value |-> known_devices[i].sensor[x[2]].value]
              ELSE chan_store[x]]
    /\ pc' = "constructed"
    /\ subscribed' = FALSE
    /\ restore_pos' = 1
    /\ native_value' = NoPayload
    /\ known_devices' = << >>
    /\ recent_messages' = << >>
    /\ pending' = << >>
    /\ added_entities' = << >>
    /\ state_writes' = 0
    /\ routed' = << >>
    /\ last' = NoCall
    /\ UNCHANGED << has_via_device, delivered >>

Next ==
    \/ LoadSnapshot
    \/ ReplayStep
    \/ Subscribe
    \/ \E p \in Payloads : MessageReceived(p)
    \/ ChannelAddedToHass
    \/ Restart

Spec == Init /\ [][Next]_vars

\* stored data that no run of this router wrote: the "recent_messages" key is
\* missing, a value is null, or a value is text that no class matches
CorruptStores ==
    { [present |-> TRUE, has_recent |-> FALSE, native_value |-> NoPayload,
       recent_messages |-> << >>],
      [present |-> TRUE, has_recent |-> TRUE, native_value |-> NoPayload,
       recent_messages |-> << [key |-> V3 \o "_7", msg |-> NoPayload] >>],
      [present |-> TRUE, has_recent |-> TRUE, native_value |-> NoPayload,
       recent_messages |-> << [key |-> V3 \o "_7", msg |-> NoMessageKey] >>] }

\* the first router starts on corrupt stored data
InitCorrupt ==
    /\ has_via_device \in BOOLEAN
    /\ Constructed
    /\ delivered = 0
    /\ restarts = 0
    /\ store \in CorruptStores
    /\ chan_store = [x \in DevIds \X KeySet |-> NoChanData]

SpecCorrupt == InitCorrupt /\ [][Next]_vars

\* ------------------------------------------------------------------- claims

FullIds == { full_id(known_devices[i]) : i \in 1..Len(known_devices) }

\* a step that made one route_message call: a live message, or one iteration
\* of the replay loop
LiveStep == delivered' = delivered + 1
ReplayedStep == pc = "restoring"

\* C1: no two devices of known_devices have the same full_id, whatever
\* sequence of replayed and live route_message calls led here; a message
\* carrying the id of a known device is routed to it, not to a new device.
C1_UniqueFullId ==
    \A i, j \in 1..Len(known_devices) :
        full_id(known_devices[i]) = full_id(known_devices[j]) => i = j

\* the same device was routed two live messages and is the only one known
C1_Witness ==
    /\ state_writes = 2
    /\ last.outcome = "known"
    /\ Len(known_devices) = 1
    /\ known_devices[1].id = last.msg.id

\* C2: for every device that was routed a message, recent_messages holds
\* under its full_id exactly the payload of the last message routed to it.
C2_LastRoutedIsRecorded ==
    \A i \in 1..Len(known_devices) :
        LET fid == full_id(known_devices[i])
        IN  fid \in DOMAIN routed =>
               /\ DictHas(recent_messages, fid)
               /\ DictGet(recent_messages, fid) = routed[fid]

\* a device recreated by replay was then routed a live message with another
\* payload, which replaced the entry the snapshot held for it
C2_Witness ==
    /\ Len(known_devices) = 1
    /\ last.op = "live"
    /\ last.outcome = "known"
    /\ DictGet(recent_messages, full_id(known_devices[1])) = last.msg
    /\ DictHas(store.recent_messages, full_id(known_devices[1]))
    /\ DictGet(store.recent_messages, full_id(known_devices[1])) # last.msg

\* C3: a live message is handled, and the subscription exists, only once the
\* replay loop of async_added_to_hass is over: never before it and never
\* between two replayed route_message calls.
C3_ReplayBeforeLive ==
    (subscribed \/ state_writes > 0 \/ last.op = "live") => pc = "replayed"

\* a live message was handled after a replay that recreated a device
C3_Witness ==
    /\ store.present
    /\ Len(store.recent_messages) > 0
    /\ pc = "replayed"
    /\ last.op = "live"
    /\ DictKeys(store.recent_messages) \subseteq FullIds

\* the state right after a replay: the loop is over and no live message has
\* been handled by this router yet
AfterReplay == pc = "replayed" /\ last.op = "replay"

\* C4: after the replay of a snapshot saved by the previous run, and before
\* any live message, the full_ids of known_devices are exactly the keys of the
\* loaded snapshot and recent_messages equals the loaded snapshot.
C4_SnapshotRoundTrip ==
    (pc = "replayed" /\ state_writes = 0 /\ store.present) =>
        /\ FullIds = DictKeys(store.recent_messages)
        /\ recent_messages = store.recent_messages

\* a snapshot of two devices was replayed
C4_Witness ==
    /\ AfterReplay
    /\ state_writes = 0
    /\ Len(store.recent_messages) = 2
    /\ Len(known_devices) = 2

\* C5: a replay pass creates the missing channels and assigns no value.  After
\* the replay every device has its five channels, each without a value unless
\* the sensor's own async_added_to_hass restored one; and on any device a
\* receive with restore_only = True leaves every channel value as it is.
C5_ReplayAssignsNoValue ==
    /\ (pc = "replayed" /\ state_writes = 0 /\ store.present) =>
          \A i \in 1..Len(known_devices) : \A k \in KeySet :
              LET s == known_devices[i].sensor[k]
                  data == chan_store[<< known_devices[i].id, k >>]
              IN  /\ s.exists
                  /\ \/ s.value = None
                     \/ IsAdded(i, k) /\ data.present /\ s.value = data.value
    /\ \A i \in 1..Len(known_devices) : \A p \in Payloads :
          Match(known_devices[i].cls, p) = Matched(known_devices[i].id) =>
              \A k \in KeySet :
                  Receive(known_devices[i], p, TRUE, has_via_device).sensor[k].value
                     = known_devices[i].sensor[k].value

\* a device was recreated by replay; its humidity sensor has no value although
\* the previous run had decoded one
C5_Witness ==
    /\ AfterReplay
    /\ \E i \in 1..Len(known_devices) :
          /\ known_devices[i].sensor["humidity"].exists
          /\ known_devices[i].sensor["humidity"].value = None
          /\ chan_store[<< known_devices[i].id, "humidity" >>].present
          /\ chan_store[<< known_devices[i].id, "humidity" >>].value # None

\* C6: replay triggers no live-only effect.  As long as the last route_message
\* call of this router is a replayed one, no state write has been made and the
\* router's own value is the one restored from the snapshot; once the replay
\* is over, every key of the snapshot has its device with all its channels.
C6_ReplayNoLiveEffect ==
    /\ (last.op = "replay" /\ store.present) =>
          /\ state_writes = 0
          /\ native_value = store.native_value
    /\ AfterReplay =>
          \A key \in DictKeys(store.recent_messages) :
              \E i \in 1..Len(known_devices) :
                  /\ full_id(known_devices[i]) = key
                  /\ \A k \in KeySet : known_devices[i].sensor[k].exists

\* a device was replayed while the router's restored value is another payload
\* than the one replayed
C6_Witness ==
    /\ AfterReplay
    /\ Len(known_devices) = 1
    /\ native_value # NoPayload
    /\ native_value # last.msg

\* payloads in which MakerFabsSoilSensorV3.match finds no sensor line
UnmatchedPayloads ==
    { p \in Payloads : \/ p.json = "invalid"
                       \/ p.json = "object" /\ p.key # "message"
                       \/ p.json = "object" /\ p.val = "lineB"
                       \/ p.json = "object" /\ p.val = "lineA" /\ ~p.complete }

\* C7: routing an unmatched message changes neither known_devices (devices,
\* channels, channel values) nor recent_messages, and hands nothing to
\* async_add_entities.
C7_UnmatchedChangesNothing ==
    [][ ( /\ LiveStep \/ ReplayedStep
          /\ last'.outcome = "unmatched" \/ last'.msg \in UnmatchedPayloads )
        => /\ known_devices' = known_devices
           /\ recent_messages' = recent_messages
           /\ added_entities' = added_entities
           /\ pending' = pending ]_vars

\* an unmatched live message reached a router whose registry holds a replayed
\* device
C7_Witness ==
    /\ last.op = "live"
    /\ last.outcome = "unmatched"
    /\ store.present
    /\ Len(known_devices) = 1
    /\ recent_messages = store.recent_messages

\* C8 as stated: handling a live message that turns out to be unmatched
\* changes nothing in the router, neither its own last raw value nor the
\* number of state writes.
C8_UnmatchedLiveNoStateChange ==
    [][ (LiveStep /\ last'.outcome = "unmatched")
        => /\ native_value' = native_value
           /\ state_writes' = state_writes ]_vars

\* C8 amended: handling a live message that turns out to be unmatched leaves
\* the registry and the snapshot unchanged, but the router's own value becomes
\* that payload and one state write is made.
C8_UnmatchedLiveKeepsRegistry ==
    [][ (LiveStep /\ last'.outcome = "unmatched")
        => /\ known_devices' = known_devices
           /\ recent_messages' = recent_messages
           /\ added_entities' = added_entities
           /\ pending' = pending
           /\ native_value' = last'.msg
           /\ state_writes' = state_writes + 1 ]_vars

\* the second live message of a router was unmatched: it is the router's
\* value, while the snapshot still holds the first one
C8_Witness ==
    /\ last.op = "live"
    /\ last.outcome = "unmatched"
    /\ state_writes = 2
    /\ native_value = last.msg
    /\ Len(known_devices) = 1
    /\ DictGet(recent_messages, full_id(known_devices[1])) # native_value

\* payloads that are not the expected encoding: not JSON, JSON that is not an
\* object, an object without 'message', a 'message' that is not a string, a
\* truncated line
MalformedPayloads ==
    { p \in Payloads : \/ p.json # "object"
                       \/ p.key # "message"
                       \/ p.val = "number"
                       \/ p.val = "lineA" /\ ~p.complete }

\* C9: classification is total: route_message on a malformed payload ends as
\* unmatched and raises nothing.
C9_ClassificationTotal ==
    (last.op # "none" /\ last.msg \in MalformedPayloads) =>
        /\ last.outcome = "unmatched"
        /\ last.exc = ""

\* C10: a live message that matches but whose decode fails is skipped as a
\* whole: it creates no device and no channel and changes no channel value.
C10_FailedDecodeChangesNothing ==
    [][ (LiveStep /\ last'.exc = "ValueError")
        => /\ known_devices' = known_devices
           /\ added_entities' = added_entities ]_vars

\* C11: a corrupt stored snapshot ("recent_messages" missing, or holding a
\* value that is not a routable string) is treated as no snapshot: startup
\* does not fail, and the router comes up with an empty registry.
C11_CorruptSnapshotIgnored ==
    (restarts = 0 /\ store \in CorruptStores) =>
        /\ pc # "failed"
        /\ (pc = "replayed" /\ delivered = 0 => known_devices = << >>)

\* C12: a live JSON-format envelope (node_id N, hum, temp, bat, adc) on a
\* router that knows no device creates the device
\* MakerFabsSoilSensorV3JSON_N, whose humidity, temperature, battery and
\* moisture channels take the values of hum, temp, bat and adc.
C12_FormatBCreatesDevice ==
    [][ (LiveStep /\ known_devices = << >> /\ MatchV3JSON(last'.msg).tag = "id") =>
            \E i \in 1..Len(known_devices') :
                LET d == known_devices'[i]
                    p == last'.msg
                IN  /\ full_id(d) = V3JSON \o "_" \o p.id
                    /\ QEq(d.sensor["humidity"].value, QInt(p.h.v))
                    /\ QEq(d.sensor["temperature"].value, QInt(p.t.v))
                    /\ QEq(d.sensor["battery"].value, QInt(p.bat))
                    /\ QEq(d.sensor["moisture"].value, QInt(p.adc)) ]_vars

\* a complete sensor line whose H and T fields are decimal numbers
DecodableLineA(p) ==
    p.json = "object" /\ p.key = "message" /\ p.val = "lineA" /\ p.complete
        /\ p.h.isnum /\ p.t.isnum

\* the device at position i carries the values decoded from sensor line p
DecodedFrom(d, p) ==
    /\ full_id(d) = V3 \o "_" \o p.id
    /\ QEq(d.sensor["humidity"].value, QInt(p.h.v))
    /\ QEq(d.sensor["temperature"].value, QInt(p.t.v))
    /\ QEq(d.sensor["adc"].value, QInt(p.adc))
    /\ QEq(d.sensor["battery"].value, Q(p.bat * 33, 10240))
    /\ (p.bat = 0 => QEq(d.sensor["battery"].value, QInt(0)))
    /\ (p.bat = 1024 => QEq(d.sensor["battery"].value, Q(33, 10)))

\* C13: a live sensor line "ID<d> ... H:<h> T:<t> ADC:<a> BAT:<b>" received
\* by a router that knows no device creates the device
\* MakerFabsSoilSensorV3_<d> and sets humidity = h, temperature = t, adc = a
\* and battery = b * 3.3 / 1024 (raw 0 gives 0.0 V, raw 1024 gives 3.3 V).
C13_FirstLineCreatesAndSets ==
    [][ (LiveStep /\ known_devices = << >> /\ DecodableLineA(last'.msg)) =>
            /\ Len(known_devices') = 1
            /\ DecodedFrom(known_devices'[1], last'.msg) ]_vars

\* the devices that re-match payload p with their own id
Owners(devs, p) ==
    { i \in 1..Len(devs) : Match(devs[i].cls, p) = Matched(devs[i].id) }

\* a live message whose receive ran to its end
DecodedStep == LiveStep /\ last'.outcome \in {"new", "known"}

\* a value in lowest terms, to compare values without large products
RECURSIVE GCD(_, _)
GCD(x, y) == IF y = 0 THEN x ELSE GCD(y, x % y)
QNorm(a) ==
    IF a.d = 0 THEN a
    ELSE LET g == GCD(IF a.n < 0 THEN -a.n ELSE a.n, a.d)
         IN  Q(a.n \div g, a.d \div g)
QSame(a, b) == a.d # 0 /\ b.d # 0 /\ QNorm(a) = QNorm(b)

\* 100 - (max(a - 43 * (b * 3.3 / 1024), 500) - 500) / 5 over one denominator:
\* the adjusted reading is (10240 a - 1419 b) / 10240
AdjustedReading(a, b) == Q(10240 * a - 1419 * b, 10240)
Moisture(a, b) ==
    IF 10240 * a - 1419 * b <= 5120000 THEN QInt(100)
    ELSE Q(10240000 - 10240 * a + 1419 * b, 51200)

\* readings around the floor (500 with BAT 0, 541.5 with BAT 300) and the
\* ends of the 10-bit ranges
SampleADC == {0, 500, 501, 541, 542, 1023}
SampleBAT == {0, 300, 1024}

\* C14: for a sensor line with ADC = a and BAT = b the moisture channel is set
\* to 100 - (max(a - 43 * (b * 3.3 / 1024), 500) - 500) / 5; it is exactly 100
\* whenever the adjusted reading is at most 500 and it never exceeds 100.
MoistureAsClaimed(m, a, b) ==
    /\ QSame(m, Moisture(a, b))
    /\ QLe(m, QInt(100))
    /\ (QLe(AdjustedReading(a, b), QInt(500)) => QSame(m, QInt(100)))

C14_MoistureFormula ==
    [][ DecodedStep =>
            /\ \A i \in Owners(known_devices', last'.msg) :
                   MoistureAsClaimed(known_devices'[i].sensor["moisture"].value,
                                     last'.msg.adc, last'.msg.bat)
            /\ \A a \in SampleADC, b \in SampleBAT :
                   MoistureAsClaimed(
                       parse_moisture(LineA(last'.msg.id, Num(0), Num(0), a, b)),
                       a, b) ]_vars

\* ADC 600 with BAT 300 has been decoded to 45217/512 = 88.314453125
C14_Witness ==
    /\ last.op = "live" /\ last.outcome \in {"new", "known"}
    /\ last.msg.adc = 600 /\ last.msg.bat = 300
    /\ \E i \in Owners(known_devices, last.msg) :
          QSame(known_devices[i].sensor["moisture"].value, Q(45217, 512))

\* C15: once a live message has been decoded for a device, each channel of
\* that device keeps the value computed from that message until the next
\* message is routed, whenever the channel sensors' added-to-hass callbacks
\* run.
C15_DecodedValuesStay ==
    (last.op = "live" /\ last.outcome \in {"new", "known"}) =>
        \A i \in Owners(known_devices, last.msg) :
            /\ DecodedFrom(known_devices[i], last.msg)
            /\ QSame(known_devices[i].sensor["moisture"].value,
                     Moisture(last.msg.adc, last.msg.bat))

\* C16: each channel key of a device is created and handed to
\* async_add_entities at most once per router, over every sequence of
\* replayed and live receive calls; a later receive reuses the sensor.
C16_AnnouncedOnce ==
    \A i, j \in 1..Len(added_entities) :
        added_entities[i] = added_entities[j] => i = j

\* a device has received a second message, replayed or live, after all five
\* of its sensors had been announced
C16_Witness ==
    /\ \E i \in 1..Len(known_devices) :
          \A k \in KeySet : known_devices[i].sensor[k].exists
    /\ Len(added_entities) = 5
    /\ last.op = "live" /\ last.outcome = "known"

\* C17: the registry of one router only grows: after every later message a
\* known device is still there, with the same id at the same position, and
\* none of its channels has been removed.
C17_RegistryOnlyGrows ==
    [][ restarts' = restarts =>
            /\ Len(known_devices') >= Len(known_devices)
            /\ \A i \in 1..Len(known_devices) :
                  /\ known_devices'[i].cls = known_devices[i].cls
                  /\ known_devices'[i].id = known_devices[i].id
                  /\ \A k \in KeySet :
                        known_devices[i].sensor[k].exists
                            => /\ known_devices'[i].sensor[k].exists
                               /\ \A j \in (Len(added_entities) + 1)..Len(added_entities') :
                                     added_entities'[j] # << full_id(known_devices[i]), k >> ]_vars

\* a second device has been discovered by a live message behind a device
\* that already had all its channels
C17_Witness ==
    /\ Len(known_devices) = 2
    /\ last.op = "live" /\ last.outcome = "new"
    /\ full_id(known_devices[2]) = V3 \o "_" \o last.msg.id
    /\ \A k \in KeySet : known_devices[1].sensor[k].exists

\* a step that calls route_message: a live message or one replayed entry
RouteStep == LiveStep \/ (pc = "restoring" /\ restore_pos' = restore_pos + 1)

\* the devices a step has touched: their sensors, their snapshot entry or
\* their announced entities differ, or they are new
Touched ==
    { i \in 1..Len(known_devices') :
        \/ i > Len(known_devices)
        \/ known_devices'[i] # known_devices[i]
        \/ DictHas(recent_messages', full_id(known_devices'[i]))
              # DictHas(recent_messages, full_id(known_devices'[i]))
        \/ /\ DictHas(recent_messages, full_id(known_devices'[i]))
           /\ DictGet(recent_messages', full_id(known_devices'[i]))
                 # DictGet(recent_messages, full_id(known_devices'[i]))
        \/ \E j \in (Len(added_entities) + 1)..Len(added_entities') :
              added_entities'[j][1] = full_id(known_devices'[i]) }

\* C18: a routed message touches one device only, and only a device whose
\* class's match returns exactly that device's id for the message; every
\* other device of known_devices and its recent_messages entry are unchanged.
C18_RoutingIsolation ==
    [][ RouteStep =>
            /\ Touched \subseteq Owners(known_devices', last'.msg)
            /\ Cardinality(Touched) <= 1
            /\ Len(recent_messages') <= Len(recent_messages) + 1 ]_vars

\* a live message for a second id reached a router that knew one device with
\* values: the first device kept them and a second one was created
C18_Witness ==
    /\ Len(known_devices) = 2
    /\ last.op = "live" /\ last.outcome = "new"
    /\ Owners(known_devices, last.msg) = { 2 }
    /\ known_devices[1].sensor["humidity"].value # None
    /\ DictGet(recent_messages, full_id(known_devices[1])) # last.msg

\* the classes whose constructor asserts a match
DecoderClasses == { V3, V3JSON }

\* C19: route_message never reaches the constructor's assertion: it
\* constructs a device only for a payload for which the class's match returns
\* an id, and the new device carries that id; constructing a decoder directly
\* from a payload its class does not match fails with the assertion.
C19_AssertionNeverReached ==
    [][ RouteStep =>
            /\ last'.exc # "AssertionError"
            /\ (Len(known_devices') > Len(known_devices) =>
                  LET d == known_devices'[Len(known_devices')]
                  IN  /\ Len(known_devices') = Len(known_devices) + 1
                      /\ Match(d.cls, last'.msg) = Matched(d.id))
            /\ \A cls \in DecoderClasses :
                  Match(cls, last'.msg) = NoMatch
                      => Construct(cls, last'.msg).exc = "AssertionError" ]_vars

\* a router that has constructed a device was then handed a live message
\* that no class matches, and constructed nothing for it
C19_Witness ==
    /\ Len(known_devices) = 1
    /\ last.op = "live" /\ last.outcome = "unmatched"
    /\ Match(V3, last.msg) = NoMatch
    /\ Construct(V3, last.msg).exc = "AssertionError"

\* C20: every device in known_devices has an entry in recent_messages under
\* its full_id, and the payload stored there re-matches the device:
\* type(device).match(recent_messages[device.full_id]) = device.id.
C20_KnownDeviceHasSnapshot ==
    \A i \in 1..Len(known_devices) :
        LET d == known_devices[i]
        IN  /\ DictHas(recent_messages, full_id(d))
            /\ Match(d.cls, DictGet(recent_messages, full_id(d))) = Matched(d.id)

\* a device whose first receive raised half-way is known and has its entry
C20_Witness ==
    /\ Len(known_devices) = 1
    /\ last.op = "live" /\ last.outcome = "raised" /\ last.exc = "ValueError"
    /\ DictHas(recent_messages, full_id(known_devices[1]))
    /\ DictGet(recent_messages, full_id(known_devices[1])) = last.msg

====
